---- MODULE Spec2Model ----
(***************************************************************************)
(* Beer's-law calibration script (src/app.py): the table of standards is   *)
(* parsed, gated by three validations, fitted by ordinary least squares,   *)
(* interpreted, and then used to back-calculate sample concentrations and  *)
(* their precision figures.                                                *)
(*                                                                         *)
(* Numbers.  A Python float is modelled as an exact rational <<n, d>> in   *)
(* lowest terms with d > 0.  numpy's not-a-number is <<0, 0>>, a Python    *)
(* name that has not been assigned yet is <<>>.  A value s * sqrt(q), as   *)
(* produced by math.sqrt and by the correlation coefficient, is the record *)
(* [sgn |-> s, sq |-> q].  Text is a sequence of one-character strings.    *)
(***************************************************************************)
EXTENDS Integers, Sequences, FiniteSets, TLC

(***************************************************************************)
(* Rational arithmetic                                                     *)
(***************************************************************************)
Abs(n) == IF n < 0 THEN -n ELSE n

Sign(n) == IF n < 0 THEN -1 ELSE IF n > 0 THEN 1 ELSE 0

RECURSIVE GCD(_, _)
GCD(m, n) == IF n = 0 THEN m ELSE GCD(n, m % n)

Rat(n, d) ==
    LET g == GCD(Abs(n), Abs(d))
    IN  IF d < 0 THEN <<-(n \div g), (-d) \div g>> ELSE <<n \div g, d \div g>>

Unset == <<>>

NaN == <<0, 0>>

Zero == <<0, 1>>

IsNumber(q) == Len(q) = 2 /\ q[2] > 0

RNeg(p) == <<-p[1], p[2]>>

RAdd(p, q) ==
    LET g == GCD(p[2], q[2])
    IN  Rat(p[1] * (q[2] \div g) + q[1] * (p[2] \div g), (p[2] \div g) * q[2])

RSub(p, q) == RAdd(p, RNeg(q))

RMul(p, q) ==
    LET g1 == GCD(Abs(p[1]), q[2])
        g2 == GCD(Abs(q[1]), p[2])
    IN  <<(p[1] \div g1) * (q[1] \div g2), (p[2] \div g2) * (q[2] \div g1)>>

\* p / q for q # 0
RDiv(p, q) == RMul(p, IF q[1] < 0 THEN <<-q[2], -q[1]>> ELSE <<q[2], q[1]>>)

\* p < q by continued-fraction comparison (no cross product is formed)
RECURSIVE FracLess(_, _, _, _)
FracLess(n1, d1, n2, d2) ==
    LET q1 == n1 \div d1
        q2 == n2 \div d2
        r1 == n1 - q1 * d1
        r2 == n2 - q2 * d2
    IN  IF q1 # q2 THEN q1 < q2
        ELSE IF r2 = 0 THEN FALSE
        ELSE IF r1 = 0 THEN TRUE
        ELSE FracLess(d2, r2, d1, r1)

RLt(p, q) == FracLess(p[1], p[2], q[1], q[2])

RLe(p, q) == ~RLt(q, p)

RAbs(p) == <<Abs(p[1]), p[2]>>

RECURSIVE RSum(_)
RSum(s) == IF s = <<>> THEN Zero ELSE RAdd(s[1], RSum(Tail(s)))

RECURSIVE Pow10(_)
Pow10(k) == IF k = 0 THEN 1 ELSE 10 * Pow10(k - 1)

(***************************************************************************)
(* Text: float(text) and the fixed-point formats f"{x:.3f}", f"{x:.4f}"    *)
(***************************************************************************)
Digits == <<"0", "1", "2", "3", "4", "5", "6", "7", "8", "9">>

IsDigit(c) == \E i \in 1..10 : Digits[i] = c

DigitVal(c) == CHOOSE i \in 0..9 : Digits[i + 1] = c

RECURSIVE DigitsToInt(_)
DigitsToInt(s) ==
    IF s = <<>> THEN 0
    ELSE 10 * DigitsToInt(SubSeq(s, 1, Len(s) - 1)) + DigitVal(s[Len(s)])

RECURSIVE IntToDigits(_)
IntToDigits(n) ==
    IF n < 10 THEN <<Digits[n + 1]>>
    ELSE IntToDigits(n \div 10) \o <<Digits[(n % 10) + 1]>>

RECURSIVE Strip(_)
Strip(s) ==
    IF s = <<>> THEN s
    ELSE IF s[1] = " " THEN Strip(Tail(s))
    ELSE IF s[Len(s)] = " " THEN Strip(SubSeq(s, 1, Len(s) - 1))
    ELSE s

\* the value float(text) returns, or Unset where float raises ValueError.
\* Grammar: blanks, an optional sign, decimal digits with at most one point
\* and at least one digit.  The texts of this model are written with blanks,
\* signs, digits, "." and "," only, so the exponent, underscore, inf and nan
\* forms that float also accepts do not occur.
ParseFloat(text) ==
    LET t    == Strip(text)
        neg  == t # <<>> /\ t[1] = "-"
        body == IF t # <<>> /\ t[1] \in {"+", "-"} THEN Tail(t) ELSE t
        dots == {i \in 1..Len(body) : body[i] = "."}
        dot  == IF dots = {} THEN Len(body) + 1 ELSE CHOOSE i \in dots : TRUE
        ip   == SubSeq(body, 1, dot - 1)
        fp   == SubSeq(body, dot + 1, Len(body))
        ok   == /\ Cardinality(dots) <= 1
                /\ Len(ip) + Len(fp) >= 1
                /\ \A i \in 1..Len(ip) : IsDigit(ip[i])
                /\ \A i \in 1..Len(fp) : IsDigit(fp[i])
        mag  == DigitsToInt(ip) * Pow10(Len(fp)) + DigitsToInt(fp)
    IN  IF ok THEN Rat(IF neg THEN -mag ELSE mag, Pow10(Len(fp))) ELSE Unset

\* long division: <<floor(u + r/d) scaled by 10^k, remainder>> for 0 <= r < d
RECURSIVE ScaleDiv(_, _, _, _)
ScaleDiv(u, r, d, k) ==
    IF k = 0 THEN <<u, r>>
    ELSE ScaleDiv(10 * u + (10 * r) \div d, (10 * r) % d, d, k - 1)

\* |q| * 10^k rounded to an integer, ties to even, as the format does with the
\* exact value of its argument
RoundUnits(q, k) ==
    LET n  == Abs(q[1])
        sd == ScaleDiv(n \div q[2], n % q[2], q[2], k)
        fl == sd[1]
        tw == 2 * sd[2]
    IN  IF tw < q[2] THEN fl
        ELSE IF tw > q[2] THEN fl + 1
        ELSE IF fl % 2 = 0 THEN fl ELSE fl + 1

RECURSIVE PadLeft(_, _)
PadLeft(s, k) == IF Len(s) >= k THEN s ELSE PadLeft(<<"0">> \o s, k)

\* f"{q:.kf}"
FormatFixed(q, k) ==
    IF q = NaN THEN <<"n", "a", "n">>
    ELSE LET u  == RoundUnits(q, k)
             ds == PadLeft(IntToDigits(u), k + 1)
         IN  (IF q[1] < 0 THEN <<"-">> ELSE <<>>)
             \o SubSeq(ds, 1, Len(ds) - k) \o <<".">>
             \o SubSeq(ds, Len(ds) - k + 1, Len(ds))

(***************************************************************************)
(* Bounds of the model                                                     *)
(***************************************************************************)
\* most rows of the table of standards, and largest num_std considered
MaxStd == 3

\* largest num_samples considered
MaxSamples == 2

SeqsUpTo(S, n) == UNION {[1..k -> S] : k \in 0..n}

(***************************************************************************)
(* Constants of the script                                                 *)
(***************************************************************************)
\* st.number_input("Jumlah data standar", min_value=3, ...)
NumStdMin == 3

\* st.number_input("Jumlah sampel", min_value=1, ...)
NumSamplesMin == 1

\* abs(a) < 1e-6
SlopeEps == <<1, 1000000>>

\* abs(b) < 0.05
InterceptSmall == <<1, 20>>

\* r_value > 0.995, as r_value ** 2 > 0.995 ** 2 for r_value > 0
RExcellentSq == <<39601, 40000>>

\* r_value > 0.98, as r_value ** 2 > 0.98 ** 2 for r_value > 0
RFairSq == <<2401, 2500>>

\* C_decimal = ppm / 1000000
PpmPerUnit == <<1000000, 1>>

Hundred == <<100, 1>>

(***************************************************************************)
(* The rows of the data editor as itertuples(index=False) yields them      *)
(***************************************************************************)
Letters ==
    {"a", "b", "c", "d", "e", "f", "g", "h", "i", "j", "k", "l", "m", "n",
     "o", "p", "q", "r", "s", "t", "u", "v", "w", "x", "y", "z", "A", "B",
     "C", "D", "E", "F", "G", "H", "I", "J", "K", "L", "M", "N", "O", "P",
     "Q", "R", "S", "T", "U", "V", "W", "X", "Y", "Z"}

\* the columns of default_data: "Konsentrasi (ppm)" and "Absorbansi"
Columns ==
    << <<"K", "o", "n", "s", "e", "n", "t", "r", "a", "s", "i", " ", "(",
         "p", "p", "m", ")">>,
       <<"A", "b", "s", "o", "r", "b", "a", "n", "s", "i">> >>

\* str.isidentifier for the characters that occur in column names
IsIdentifier(name) ==
    /\ name # <<>>
    /\ ~IsDigit(name[1])
    /\ \A i \in 1..Len(name) : name[i] \in Letters \cup {"_"} \/ IsDigit(name[i])

\* the field names of the row tuples: namedtuple(..., rename=True) keeps a
\* column name that is an identifier not starting with "_" and not seen
\* before, and replaces any other by "_" followed by its position
TupleFields(cols) ==
    [i \in 1..Len(cols) |->
        IF /\ IsIdentifier(cols[i])
           /\ cols[i][1] # "_"
           /\ \A j \in 1..(i - 1) : cols[j] # cols[i]
        THEN cols[i]
        ELSE <<"_">> \o IntToDigits(i - 1)]

AttributeError == <<"AttributeError">>

\* row.<name> for a row tuple with the given cell texts
GetAttr(cells, name) ==
    LET fields == TupleFields(Columns)
        at     == {i \in 1..Len(fields) : fields[i] = name}
    IN  IF at = {} THEN AttributeError ELSE cells[CHOOSE i \in at : TRUE]

\* the body of the try block for one row: <<conc, absb>>, or Unset when
\* anything in it raises
TryParseRow(cells) ==
    LET c0   == GetAttr(cells, <<"_", "0">>)
        c1   == GetAttr(cells, <<"_", "1">>)
        conc == IF c0 = AttributeError THEN Unset ELSE ParseFloat(c0)
        absb == IF c1 = AttributeError THEN Unset ELSE ParseFloat(c1)
    IN  IF conc = Unset \/ absb = Unset THEN Unset ELSE <<conc, absb>>

(***************************************************************************)
(* linregress(df["Konsentrasi"], df["Absorbansi"])                         *)
(***************************************************************************)
RECURSIVE LCM(_)
LCM(s) ==
    IF s = <<>> THEN 1
    ELSE LET l == LCM(Tail(s)) IN (s[1] \div GCD(s[1], l)) * l

RECURSIVE ISum(_)
ISum(s) == IF s = <<>> THEN 0 ELSE s[1] + ISum(Tail(s))

Column(df, j) == [i \in 1..Len(df) |-> df[i][j]]

\* df[col].nunique()
NUnique(df, j) == Cardinality({df[i][j] : i \in 1..Len(df)})

\* The sums of squares and cross products are formed over the integers
\* X = Lx * x and Y = Ly * y, where Lx and Ly are the common denominators of
\* the two columns; the slope, intercept and correlation below are the exact
\* values of the closed-form least-squares formulas for x and y.
Linregress(df) ==
    LET n    == Len(df)
        Lx   == LCM([i \in 1..n |-> df[i][1][2]])
        Ly   == LCM([i \in 1..n |-> df[i][2][2]])
        X    == [i \in 1..n |-> df[i][1][1] * (Lx \div df[i][1][2])]
        Y    == [i \in 1..n |-> df[i][2][1] * (Ly \div df[i][2][2])]
        SX   == ISum(X)
        SY   == ISum(Y)
        ssxm == n * ISum([i \in 1..n |-> X[i] * X[i]]) - SX * SX
        ssym == n * ISum([i \in 1..n |-> Y[i] * Y[i]]) - SY * SY
        ssxy == n * ISum([i \in 1..n |-> X[i] * Y[i]]) - SX * SY
        slope     == RMul(Rat(ssxy, ssxm), Rat(Lx, Ly))
        xmean     == Rat(SX, n * Lx)
        ymean     == Rat(SY, n * Ly)
        intercept == RSub(ymean, RMul(slope, xmean))
        r         == IF ssxm = 0 \/ ssym = 0
                     THEN [sgn |-> 0, sq |-> Zero]
                     ELSE [sgn |-> Sign(ssxy),
                           sq  |-> RMul(Rat(ssxy, ssxm), Rat(ssxy, ssym))]
    IN  [slope |-> slope, intercept |-> intercept, rvalue |-> r]

\* x > t for x = s * sqrt(q) and a threshold t > 0 given by its square
RootGreater(x, tsq) == x.sgn > 0 /\ RLt(tsq, x.sq)

\* math.sqrt(q) for q >= 0
Sqrt(q) == [sgn |-> Sign(q[1]), sq |-> q]

(***************************************************************************)
(* Sample evaluation                                                       *)
(***************************************************************************)
\* the clamp left out
Max0_NoClamp(x) == x

\* max(x, 0) of Python: x unless 0 > x
Max0(x) == IF RLt(x, Zero) THEN Zero ELSE x

\* abs_val of one sample: float(abs_val_str), 0.0 where that raises
AbsVal(text) == IF ParseFloat(text) = Unset THEN Zero ELSE ParseFloat(text)

\* conc_val = (abs_val - b) / a if a != 0 else 0, then max(conc_val, 0)
ConcVal(abs_val, slope, intercept) ==
    Max0(IF slope # Zero THEN RDiv(RSub(abs_val, intercept), slope) ELSE Zero)

\* the sum not divided by the count
Mean_NoDivide(vals) == RSum(vals)

\* np.mean of a non-empty list of numbers
Mean(vals) == RDiv(RSum(vals), <<Len(vals), 1>>)

\* x / y where y is a numpy float64: a zero divisor yields nan or inf with a
\* warning, it does not raise
NpDivide(x, y) ==
    IF y = Zero THEN (IF x = Zero THEN NaN ELSE <<Sign(x[1]), 0>>)
    ELSE RDiv(x, y)

\* the difference without math.fabs
Selisih_Signed(conc, avg) == RSub(conc, avg)

\* selisih = math.fabs(conc_values[i] - avg_conc_values)
Selisih(conc, avg) == RAbs(RSub(conc, avg))

\* rpd = selisih / avg_conc_values * 100
Rpd(selisih, avg) ==
    LET q == NpDivide(selisih, avg)
    IN  IF IsNumber(q) THEN RMul(q, Hundred) ELSE q

\* one entry of sample_results
SampleRow(i, abs_val, conc, avg) ==
    [Sampel        |-> i,
     Absorbansi    |-> FormatFixed(abs_val, 4),
     Konsentrasi   |-> FormatFixed(conc, 3),
     Selisih       |-> FormatFixed(Selisih(conc, avg), 3),
     RPD           |-> FormatFixed(Rpd(Selisih(conc, avg), avg), 3)]

NoCV == [defined |-> FALSE, C |-> Zero]

\* cv_horwitz of one table row: 2 ** (1 - 0.5 * log10(C_decimal)) when
\* C_decimal > 0, kept as its argument C_decimal; np.nan otherwise
CvHorwitz(s) ==
    LET ppm       == ParseFloat(s.Konsentrasi)
        C_decimal == RDiv(ppm, PpmPerUnit)
    IN  IF RLt(Zero, C_decimal) THEN [defined |-> TRUE, C |-> C_decimal] ELSE NoCV

\* one entry of horwitz_results
HorwitzRow(s) ==
    [Sampel      |-> s.Sampel,
     Konsentrasi |-> FormatFixed(ParseFloat(s.Konsentrasi), 3),
     CV          |-> CvHorwitz(s)]

(***************************************************************************)
(* Interpretation of the fit                                               *)
(***************************************************************************)
SlopeMessage(slope) == IF RLt(Zero, slope) THEN "positif" ELSE "negatif"

InterceptMessage(intercept) ==
    IF RLt(RAbs(intercept), InterceptSmall) THEN "kecil" ELSE "agak besar"

\* the thresholds taken inclusively
CorrelationMessage_Inclusive(r) ==
    IF r.sgn > 0 /\ RLe(RExcellentSq, r.sq) THEN "sangat tinggi"
    ELSE IF r.sgn > 0 /\ RLe(RFairSq, r.sq) THEN "cukup baik"
    ELSE "rendah"

CorrelationMessage(r) ==
    IF RootGreater(r, RExcellentSq) THEN "sangat tinggi"
    ELSE IF RootGreater(r, RFairSq) THEN "cukup baik"
    ELSE "rendah"

\* abs(a) < 1e-6
SlopeTooSmall(slope) == RLt(RAbs(slope), SlopeEps)

(***************************************************************************)
(* State                                                                   *)
(***************************************************************************)
VARIABLES
    pc,               \* the statement the script run is at
    num_std,          \* the "Jumlah data standar" input
    edited_data,      \* the rows of the data editor, two cell texts each
    row_i,            \* rows the parsing loop has consumed
    std_data,         \* the parsed (conc, absb) pairs
    df,               \* the frame built from std_data
    fit_error,        \* the validation that stopped the run, "" if none
    a, b,             \* slope and intercept
    r_value,          \* correlation coefficient
    r_squared,
    interpretation,   \* the three messages written for a, b and r_value
    num_samples,      \* the "Jumlah sampel" input
    abs_texts,        \* the sample text inputs read so far
    abs_values,
    conc_values,
    avg_conc_values,
    selisih_values,
    sample_results,
    rsd,
    horwitz_results,
    horwitz_values,
    avg_cv_horwitz

vars ==
    <<pc, num_std, edited_data, row_i, std_data, df, fit_error, a, b, r_value,
      r_squared, interpretation, num_samples, abs_texts, abs_values,
      conc_values, avg_conc_values, selisih_values, sample_results, rsd,
      horwitz_results, horwitz_values, avg_cv_horwitz>>

inputVars == <<num_std, edited_data>>

fitVars == <<a, b, r_value, r_squared>>

sampleVars ==
    <<num_samples, abs_texts, abs_values, conc_values, avg_conc_values,
      selisih_values, sample_results, rsd, horwitz_results, horwitz_values,
      avg_cv_horwitz>>

NoRoot == [sgn |-> 0, sq |-> Unset]

(***************************************************************************)
(* Inputs                                                                  *)
(***************************************************************************)
Whole(n) == <<n, 1>>

\* cell texts of the data editor: "", "1", "2.5", "1,5"
CellTexts == {<<>>, <<"1">>, <<"2", ".", "5">>, <<"1", ",", "5">>}

EditorRows == {<<c, t>> : c \in CellTexts, t \in CellTexts}

\* parsed standards (0,0), (0,1), (1,0), (1,1), (2,0), (2,3) ...
StdPairs ==
    {<<Whole(0), Whole(0)>>, <<Whole(0), Whole(1)>>, <<Whole(1), Whole(0)>>,
     <<Whole(1), Whole(1)>>, <<Whole(2), Whole(0)>>, <<Whole(2), Whole(3)>>}

\* ... and standards whose absorbances differ by 1e-7 only
FlatPairs == {<<Whole(x), y>> : x \in {0, 1}, y \in {Zero, <<1, 10000000>>}}

StdTables == SeqsUpTo(StdPairs, MaxStd) \cup SeqsUpTo(FlatPairs, MaxStd)

\* sample texts of a whole run: "", "1"
PlainTexts == {<<>>, <<"1">>}

\* sample texts for the evaluation alone: "", "1,5", "0", "1", "2", "-1",
\* "0.0004"
EvalTexts ==
    {<<>>, <<"1", ",", "5">>, <<"0">>, <<"1">>, <<"2">>, <<"-", "1">>,
     <<"0", ".", "0", "0", "0", "4">>}

\* fitted lines <<a, b>> for the evaluation alone
EvalLines ==
    {<<Whole(1), Whole(0)>>, <<Whole(1), Whole(1)>>, <<Whole(2), Whole(-1)>>,
     <<Whole(-1), Whole(1)>>, <<<<1, 2>>, <<1, 2>>>>, <<Whole(-2), Whole(-1)>>}

\* regression results for the slope gate and the interpretation alone
GateSlopes ==
    {Zero, <<1, 10000000>>, <<1, 1000001>>, <<1, 1000000>>, <<-1, 1000000>>,
     <<-1, 1000001>>, <<1, 999999>>, Whole(1), Whole(-1)}

GateIntercepts == {Zero, <<49, 1000>>, <<1, 20>>, <<-1, 20>>, <<-49, 1000>>, Whole(1)}

GateCorrelations ==
    {[sgn |-> Sign(k), sq |-> Rat(k * k, 1000000)] :
        k \in {-1000, -996, 0, 500, 979, 980, 981, 994, 995, 996, 1000}}

(***************************************************************************)
(* Initial states                                                          *)
(***************************************************************************)
Fresh ==
    /\ fit_error = ""
    /\ a = Unset /\ b = Unset /\ r_value = NoRoot /\ r_squared = Unset
    /\ interpretation = <<>>
    /\ num_samples = 0
    /\ abs_texts = <<>> /\ abs_values = <<>> /\ conc_values = <<>>
    /\ avg_conc_values = Unset
    /\ selisih_values = <<>> /\ sample_results = <<>>
    /\ rsd = NoRoot
    /\ horwitz_results = <<>> /\ horwitz_values = <<>>
    /\ avg_cv_horwitz = <<>>

\* the script run from its first statement, for any content of the editor
InitApp ==
    /\ pc = "parse"
    /\ num_std \in NumStdMin..MaxStd
    /\ edited_data \in SeqsUpTo(EditorRows, MaxStd)
    /\ row_i = 0
    /\ std_data = <<>>
    /\ df = <<>>
    /\ Fresh

\* the script from line 35 on, as a function of the parsed pairs
Init ==
    /\ pc = "parse"
    /\ num_std \in NumStdMin..MaxStd
    /\ edited_data = <<>>
    /\ row_i = 0
    /\ std_data \in StdTables
    /\ df = <<>>
    /\ Fresh
\* the script from line 50 on, as a function of the regression result
InitGate ==
    /\ pc = "check_slope"
    /\ num_std = NumStdMin
    /\ edited_data = <<>> /\ row_i = 0 /\ std_data = <<>> /\ df = <<>>
    /\ fit_error = ""
    /\ a \in GateSlopes
    /\ b \in GateIntercepts
    /\ r_value \in GateCorrelations
    /\ r_squared = r_value.sq
    /\ interpretation = <<>>
    /\ num_samples = 0
    /\ abs_texts = <<>> /\ abs_values = <<>> /\ conc_values = <<>>
    /\ avg_conc_values = Unset
    /\ selisih_values = <<>> /\ sample_results = <<>>
    /\ rsd = NoRoot
    /\ horwitz_results = <<>> /\ horwitz_values = <<>>
    /\ avg_cv_horwitz = <<>>

\* the script from line 95 on, as a function of the fitted line
InitEvaluate ==
    /\ pc = "num_samples"
    /\ num_std = NumStdMin
    /\ edited_data = <<>> /\ row_i = 0 /\ std_data = <<>> /\ df = <<>>
    /\ fit_error = ""
    /\ \E line \in EvalLines : a = line[1] /\ b = line[2]
    /\ r_value = [sgn |-> Sign(a[1]), sq |-> Whole(1)]
    /\ r_squared = Whole(1)
    /\ interpretation =
           <<SlopeMessage(a), InterceptMessage(b), CorrelationMessage(r_value)>>
    /\ num_samples = 0
    /\ abs_texts = <<>> /\ abs_values = <<>> /\ conc_values = <<>>
    /\ avg_conc_values = Unset
    /\ selisih_values = <<>> /\ sample_results = <<>>
    /\ rsd = NoRoot
    /\ horwitz_results = <<>> /\ horwitz_values = <<>>
    /\ avg_cv_horwitz = <<>>

(***************************************************************************)
(* The statements of the script                                            *)
(***************************************************************************)
\* the message shown without st.stop(): the run goes on to the samples
Stop_FallThrough(error) ==
    /\ fit_error' = error
    /\ pc' = "num_samples"

\* st.stop() after a failed validation
Stop(error) ==
    /\ fit_error' = error
    /\ pc' = "stopped"

\* lines 27-33: one row of the editor
ParseRow ==
    /\ pc = "parse"
    /\ row_i < Len(edited_data)
    /\ LET pair == TryParseRow(edited_data[row_i + 1])
       IN  std_data' = IF pair = Unset THEN std_data ELSE Append(std_data, pair)
    /\ row_i' = row_i + 1
    /\ UNCHANGED <<pc, df, fit_error, inputVars, fitVars, interpretation, sampleVars>>

\* line 35: df = pd.DataFrame(std_data, ...)
BuildFrame ==
    /\ pc = "parse"
    /\ row_i = Len(edited_data)
    /\ df' = std_data
    /\ pc' = "check_rows"
    /\ UNCHANGED <<row_i, std_data, fit_error, inputVars, fitVars, interpretation,
                   sampleVars>>

\* the two table validations in the other order
CheckRowCount_DistinctFirst ==
    /\ pc = "check_rows"
    /\ IF NUnique(df, 1) < 2
       THEN Stop("DegenerateConcentrations")
       ELSE IF Len(df) < num_std
            THEN Stop("InsufficientData")
            ELSE pc' = "check_distinct" /\ UNCHANGED fit_error
    /\ UNCHANGED <<row_i, std_data, df, inputVars, fitVars, interpretation, sampleVars>>

\* lines 38-40
CheckRowCount ==
    /\ pc = "check_rows"
    /\ IF Len(df) < num_std
       THEN Stop("InsufficientData")
       ELSE pc' = "check_distinct" /\ UNCHANGED fit_error
    /\ UNCHANGED <<row_i, std_data, df, inputVars, fitVars, interpretation, sampleVars>>

\* lines 42-44
CheckDistinct ==
    /\ pc = "check_distinct"
    /\ IF NUnique(df, 1) < 2
       THEN Stop("DegenerateConcentrations")
       ELSE pc' = "regress" /\ UNCHANGED fit_error
    /\ UNCHANGED <<row_i, std_data, df, inputVars, fitVars, interpretation, sampleVars>>

\* lines 47-48
Regress ==
    /\ pc = "regress"
    /\ LET fit == Linregress(df)
       IN  /\ a' = fit.slope
           /\ b' = fit.intercept
           /\ r_value' = fit.rvalue
           /\ r_squared' = fit.rvalue.sq
    /\ pc' = "check_slope"
    /\ UNCHANGED <<row_i, std_data, df, fit_error, inputVars, interpretation, sampleVars>>

\* lines 50-52
CheckSlope ==
    /\ pc = "check_slope"
    /\ IF SlopeTooSmall(a)
       THEN Stop("SlopeTooSmall")
       ELSE pc' = "interpret" /\ UNCHANGED fit_error
    /\ UNCHANGED <<row_i, std_data, df, inputVars, fitVars, interpretation, sampleVars>>

\* lines 76-93
Interpret ==
    /\ pc = "interpret"
    /\ interpretation' =
           <<SlopeMessage(a), InterceptMessage(b), CorrelationMessage(r_value)>>
    /\ pc' = "num_samples"
    /\ UNCHANGED <<row_i, std_data, df, fit_error, inputVars, fitVars, sampleVars>>

\* line 98
ReadNumSamples ==
    /\ pc = "num_samples"
    /\ num_samples' \in NumSamplesMin..MaxSamples
    /\ pc' = "invert"
    /\ UNCHANGED <<row_i, std_data, df, fit_error, inputVars, fitVars, interpretation,
                   abs_texts, abs_values, conc_values, avg_conc_values,
                   selisih_values, sample_results, rsd, horwitz_results,
                   horwitz_values, avg_cv_horwitz>>

\* lines 106-117: one sample, its text drawn from texts
InvertSample(texts) ==
    /\ pc = "invert"
    /\ Len(conc_values) < num_samples
    /\ \E abs_val_str \in texts :
         LET abs_val == AbsVal(abs_val_str)
         IN  /\ abs_texts' = Append(abs_texts, abs_val_str)
             /\ abs_values' = Append(abs_values, abs_val)
             /\ conc_values' = Append(conc_values, ConcVal(abs_val, a, b))
    /\ UNCHANGED <<pc, row_i, std_data, df, fit_error, inputVars, fitVars,
                   interpretation, num_samples, avg_conc_values, selisih_values,
                   sample_results, rsd, horwitz_results, horwitz_values,
                   avg_cv_horwitz>>

\* line 119
AverageConc ==
    /\ pc = "invert"
    /\ Len(conc_values) = num_samples
    /\ avg_conc_values' = Mean(conc_values)
    /\ pc' = "deviation"
    /\ UNCHANGED <<row_i, std_data, df, fit_error, inputVars, fitVars, interpretation,
                   num_samples, abs_texts, abs_values, conc_values, selisih_values,
                   sample_results, rsd, horwitz_results, horwitz_values,
                   avg_cv_horwitz>>

\* lines 122-132: one sample
Deviation ==
    /\ pc = "deviation"
    /\ Len(sample_results) < num_samples
    /\ LET i       == Len(sample_results) + 1
           selisih == Selisih(conc_values[i], avg_conc_values)
       IN  /\ selisih_values' = Append(selisih_values, RMul(selisih, selisih))
           /\ sample_results' =
                  Append(sample_results,
                         SampleRow(i, abs_values[i], conc_values[i], avg_conc_values))
    /\ UNCHANGED <<pc, row_i, std_data, df, fit_error, inputVars, fitVars,
                   interpretation, num_samples, abs_texts, abs_values, conc_values,
                   avg_conc_values, rsd, horwitz_results, horwitz_values,
                   avg_cv_horwitz>>

\* line 134
Rsd ==
    /\ pc = "deviation"
    /\ Len(sample_results) = num_samples
    /\ rsd' = Sqrt(Mean(selisih_values))
    /\ pc' = "horwitz"
    /\ UNCHANGED <<row_i, std_data, df, fit_error, inputVars, fitVars, interpretation,
                   num_samples, abs_texts, abs_values, conc_values, avg_conc_values,
                   selisih_values, sample_results, horwitz_results, horwitz_values,
                   avg_cv_horwitz>>

\* lines 148-160: one row of sample_results
Horwitz ==
    /\ pc = "horwitz"
    /\ Len(horwitz_results) < Len(sample_results)
    /\ LET s  == sample_results[Len(horwitz_results) + 1]
           cv == CvHorwitz(s)
       IN  /\ horwitz_values' =
                  IF cv.defined THEN Append(horwitz_values, cv) ELSE horwitz_values
           /\ horwitz_results' = Append(horwitz_results, HorwitzRow(s))
    /\ UNCHANGED <<pc, row_i, std_data, df, fit_error, inputVars, fitVars,
                   interpretation, num_samples, abs_texts, abs_values, conc_values,
                   avg_conc_values, selisih_values, sample_results, rsd,
                   avg_cv_horwitz>>

\* lines 164-167: the mean over horwitz_values_clean, kept as the list of the
\* values it averages; left unassigned when that list is empty
AverageHorwitz ==
    /\ pc = "horwitz"
    /\ Len(horwitz_results) = Len(sample_results)
    /\ avg_cv_horwitz' = IF horwitz_values # <<>> THEN <<horwitz_values>> ELSE <<>>
    /\ pc' = "done"
    /\ UNCHANGED <<row_i, std_data, df, fit_error, inputVars, fitVars, interpretation,
                   num_samples, abs_texts, abs_values, conc_values, avg_conc_values,
                   selisih_values, sample_results, rsd, horwitz_results,
                   horwitz_values>>

(***************************************************************************)
(* Specifications                                                          *)
(***************************************************************************)
\* the script on the parsed pairs
Next ==
    \/ BuildFrame
    \/ CheckRowCount
    \/ CheckDistinct
    \/ Regress
    \/ CheckSlope
    \/ Interpret
    \/ ReadNumSamples
    \/ InvertSample(PlainTexts)
    \/ AverageConc
    \/ Deviation
    \/ Rsd
    \/ Horwitz
    \/ AverageHorwitz

Spec == Init /\ [][Next]_vars

\* the script on the editor's rows, up to the first validation
NextApp == ParseRow \/ BuildFrame \/ CheckRowCount

SpecApp == InitApp /\ [][NextApp]_vars

\* the slope gate and the interpretation
NextGate == CheckSlope \/ Interpret

SpecGate == InitGate /\ [][NextGate]_vars

\* the sample evaluation
NextEvaluate ==
    \/ ReadNumSamples
    \/ InvertSample(EvalTexts)
    \/ AverageConc
    \/ Deviation
    \/ Rsd
    \/ Horwitz
    \/ AverageHorwitz

SpecEvaluate == InitEvaluate /\ [][NextEvaluate]_vars

(***************************************************************************)
(* Properties                                                              *)
(***************************************************************************)
EvalPcs == {"num_samples", "invert", "deviation", "horwitz", "done"}

\* the states right after the last validation that ran
FitSucceeded == pc = "interpret"

FitDecided == FitSucceeded \/ pc = "stopped"

SamplesUntouched ==
    /\ num_samples = 0
    /\ abs_texts = <<>> /\ abs_values = <<>> /\ conc_values = <<>>
    /\ avg_conc_values = Unset
    /\ selisih_values = <<>> /\ sample_results = <<>>
    /\ rsd = NoRoot
    /\ horwitz_results = <<>> /\ horwitz_values = <<>>
    /\ avg_cv_horwitz = <<>>

\* the least-squares slope sum((x - xm)(y - ym)) / sum((x - xm)^2), written out
\* over the rationals, for a table with two distinct concentrations
OlsSlope(t) ==
    LET n   == Len(t)
        xm  == RDiv(RSum(Column(t, 1)), <<n, 1>>)
        ym  == RDiv(RSum(Column(t, 2)), <<n, 1>>)
        sxy == RSum([i \in 1..n |-> RMul(RSub(t[i][1], xm), RSub(t[i][2], ym))])
        sxx == RSum([i \in 1..n |-> RMul(RSub(t[i][1], xm), RSub(t[i][1], xm))])
    IN  RDiv(sxy, sxx)

Distinct(t) == \E i, j \in 1..Len(t) : t[i][1] # t[j][1]

\* C1: the outcome of the fit is decided by the first failing check, in the
\* order row count, distinct concentrations, slope: InsufficientData iff fewer
\* than num_std pairs are in the frame (whatever their concentrations),
\* otherwise DegenerateConcentrations iff all concentrations are equal,
\* otherwise SlopeTooSmall iff |slope| < 1e-6, otherwise success.
C1_FirstFailingCheckDecides ==
    FitDecided =>
        LET few  == Len(df) < num_std
            same == ~Distinct(df)
            flat == RLt(RAbs(OlsSlope(df)), <<1, 1000000>>)
        IN  /\ (fit_error = "InsufficientData") <=> few
            /\ (fit_error = "DegenerateConcentrations") <=> (~few /\ same)
            /\ (fit_error = "SlopeTooSmall") <=> (~few /\ ~same /\ flat)
            /\ FitSucceeded <=> (~few /\ ~same /\ ~flat)
            /\ FitSucceeded <=> (fit_error = "")
            /\ FitSucceeded => a = OlsSlope(df)

\* too few rows, all with one concentration: reported as InsufficientData
C1_Witness ==
    /\ fit_error = "InsufficientData"
    /\ Len(df) = 2
    /\ ~Distinct(df)

\* C2: fitting errors are terminal.  After a failed validation the run is
\* stopped and no sample value, sample result or precision figure exists;
\* wherever the sample evaluation runs or has left a value, the fit has
\* succeeded and |a| >= 1e-6.
C2_FitErrorsAreTerminal ==
    /\ fit_error # "" => pc = "stopped" /\ SamplesUntouched
    /\ pc = "stopped" => fit_error # ""
    /\ (pc \in EvalPcs \/ ~SamplesUntouched) =>
           /\ fit_error = ""
           /\ IsNumber(a) /\ IsNumber(b)
           /\ a # Zero
           /\ ~RLt(RAbs(a), <<1, 1000000>>)

\* a run that evaluated samples to the end
C2_Witness ==
    /\ pc = "done"
    /\ Len(sample_results) >= 1
    /\ Len(df) >= num_std

\* C3: every predicted concentration equals max(0, (absorbance - b) / a) and
\* is therefore not negative, for slopes of either sign and absorbances on
\* either side of the intercept.
C3_ConcentrationClamped ==
    \A i \in 1..Len(conc_values) :
        LET x == RDiv(RSub(abs_values[i], b), a)
        IN  /\ conc_values[i] = (IF x[1] > 0 THEN x ELSE Zero)
            /\ conc_values[i][1] >= 0

\* an absorbance below the intercept of a rising line, clamped to 0
C3_Witness ==
    \E i \in 1..Len(conc_values) :
        /\ a[1] > 0
        /\ RLt(abs_values[i], b)
        /\ conc_values[i] = Zero

RECURSIVE KeepParsed(_, _)
KeepParsed(texts, vals) ==
    IF texts = <<>> THEN <<>>
    ELSE (IF ParseFloat(texts[1]) = Unset THEN <<>> ELSE <<vals[1]>>)
         \o KeepParsed(Tail(texts), Tail(vals))

\* C4: a sample whose text does not parse has an unset concentration, and
\* the mean is taken over the samples with a parsed absorbance only.
C4_UnparseableSamplesUnset ==
    pc = "done" =>
        /\ \A i \in 1..Len(abs_texts) :
               ParseFloat(abs_texts[i]) = Unset => conc_values[i] = Unset
        /\ LET kept == KeepParsed(abs_texts, conc_values)
           IN  kept # <<>> => avg_conc_values = Mean(kept)

\* C5: a row of the Horwitz table has a CV iff the sample's predicted
\* concentration is greater than 0.
C5_HorwitzIffPositive ==
    \A i \in 1..Len(horwitz_results) :
        horwitz_results[i].CV.defined <=> conc_values[i][1] > 0

\* C6: a mean concentration of 0 ends the evaluation with an error: no row
\* of sample_results is produced from it, and no RPD is ever not-a-number.
C6_ZeroMeanIsAnError ==
    /\ avg_conc_values = Zero => sample_results = <<>>
    /\ \A i \in 1..Len(sample_results) : sample_results[i].RPD # <<"n", "a", "n">>

RECURSIVE KeptRows(_)
KeptRows(rows) ==
    IF rows = <<>> THEN <<>>
    ELSE LET conc == ParseFloat(rows[1][1])
             absb == ParseFloat(rows[1][2])
         IN  (IF conc # Unset /\ absb # Unset THEN <<<<conc, absb>>>> ELSE <<>>)
             \o KeptRows(Tail(rows))

\* what the script does instead: no row has a field _1, so no row is ever
\* kept and every run ends at the row-count warning
App_EveryRowDropped ==
    /\ std_data = <<>>
    /\ pc \in {"parse", "check_rows", "stopped"}
    /\ pc = "stopped" => fit_error = "InsufficientData"

\* C7: the frame holds exactly the rows of the editor whose two cells parse
\* as numbers, in their order, and InsufficientData is reported iff fewer
\* than num_std such rows exist.
C7_ParseableRowsKept ==
    pc # "parse" =>
        /\ df = KeptRows(edited_data)
        /\ (fit_error = "InsufficientData") <=>
               (pc = "stopped" /\ Len(KeptRows(edited_data)) < num_std)

\* r_value in thousandths, for the correlations of GateCorrelations
RThousandths ==
    CHOOSE k \in -1000..1000 :
        r_value = [sgn |-> Sign(k), sq |-> Rat(k * k, 1000000)]

C8_TierOfR ==
    /\ fit_error # "" => interpretation = <<>>
    /\ interpretation # <<>> =>
           LET k == RThousandths
               m == interpretation[3]
           IN  /\ fit_error = ""
               /\ m \in {"sangat tinggi", "cukup baik", "rendah"}
               /\ (m = "sangat tinggi") <=> (k > 995)
               /\ (m = "cukup baik") <=> (980 < k /\ k <= 995)
               /\ (m = "rendah") <=> (k <= 980)

\* C8: the message for r_value is "sangat tinggi" iff r > 0.995, "cukup
\* baik" iff 0.98 < r <= 0.995 and "rendah" iff r <= 0.98; it is written for a
\* successful fit only, and writing it changes neither a, b, r_value,
\* r_squared nor any value of the sample evaluation.
C8_CorrelationTiers ==
    /\ []C8_TierOfR
    /\ [][pc = "interpret" => UNCHANGED <<fitVars, sampleVars, fit_error>>]_vars

\* r = 0.995 exactly is classified "cukup baik"
C8_Witness ==
    /\ interpretation # <<>>
    /\ r_value = [sgn |-> 1, sq |-> <<39601, 40000>>]
    /\ interpretation[3] = "cukup baik"

\* C9 as stated: the deviation reported for a sample is the signed
\* difference concentration - mean.
C9_DeviationSigned ==
    \A i \in 1..Len(sample_results) :
        sample_results[i].Selisih =
            FormatFixed(RSub(conc_values[i], avg_conc_values), 3)

\* C9 as amended: the deviation reported for a sample is the absolute
\* difference |concentration - mean|; its square is what rsd aggregates and
\* the RPD is that absolute difference over the mean, times 100.
C9_DeviationAbsolute ==
    /\ \A i \in 1..Len(sample_results) :
           LET d  == RSub(conc_values[i], avg_conc_values)
               ad == IF d[1] < 0 THEN RNeg(d) ELSE d
           IN  /\ sample_results[i].Selisih = FormatFixed(ad, 3)
               /\ sample_results[i].Selisih[1] # "-"
               /\ selisih_values[i] = RMul(d, d)
               /\ avg_conc_values # Zero =>
                      sample_results[i].RPD =
                          FormatFixed(RMul(RDiv(ad, avg_conc_values), Hundred), 3)
    /\ pc \in {"horwitz", "done"} => rsd.sq = Mean(selisih_values)

\* a sample more than 0.0005 below the mean has a row in the table
C9_Witness ==
    \E i \in 1..Len(sample_results) :
        RLt(RAdd(conc_values[i], <<1, 2000>>), avg_conc_values)

SameNonzeroConc ==
    /\ conc_values # <<>>
    /\ conc_values[1] # Zero
    /\ \A i \in 1..Len(conc_values) : conc_values[i] = conc_values[1]

\* C10: when all samples have the same nonzero concentration, every RPD is
\* 0 and rsd is 0.
C10_IdenticalSamplesNoSpread ==
    (pc \in {"deviation", "horwitz", "done"} /\ SameNonzeroConc) =>
        /\ \A i \in 1..Len(sample_results) :
               /\ sample_results[i].RPD = <<"0", ".", "0", "0", "0">>
               /\ sample_results[i].Selisih = <<"0", ".", "0", "0", "0">>
               /\ selisih_values[i] = Zero
        /\ pc \in {"horwitz", "done"} => rsd = [sgn |-> 0, sq |-> Zero]

\* two or more samples with one nonzero concentration, evaluated to the end
C10_Witness ==
    /\ pc = "done"
    /\ num_samples >= 2
    /\ SameNonzeroConc

====
